---------------------------- MODULE Spec2Model ----------------------------
(***************************************************************************)
(* The items the macro yikes_intenum! emits for a declaration              *)
(*     pub enum $name($ty) { $variant = $value, ... }                      *)
(* with $ty = u8: the enum with its catch-all Unknown case, the two        *)
(* conversions, and the Debug, PartialEq, PartialOrd, Ord and Hash         *)
(* implementations, together with the calling code of the crate's tests    *)
(* that obtains instances and applies these operations to them.            *)
(*                                                                         *)
(* A declaration is the sequence of its (name, value) pairs in declaration *)
(* order.  An instance is a record: [variant |-> name] for a declared      *)
(* variant, which carries no payload, and                                  *)
(* [variant |-> "Unknown", value |-> v, _private |-> Sealed] for the       *)
(* catch-all case.                                                         *)
(*                                                                         *)
(* A core::hash::Hasher is external to the crate.  It is modelled by the   *)
(* sequence of write calls it has received: the state of a deterministic   *)
(* hasher, and the value finish() returns, are functions of that sequence. *)
(***************************************************************************)
EXTENDS Integers, Sequences, FiniteSets

VARIABLES
    decl,       \* the declaration the macro was invoked with
    i,          \* the integer the calling code obtains `a` for
    j,          \* the integer the calling code obtains `b` for
    a,          \* an instance held by the calling code
    b,          \* a second instance held by the calling code
    out,        \* what the last operation applied by the calling code returned
    hasher_a,   \* the hasher `a` is hashed into
    hasher_b    \* the hasher `b` is hashed into

vars == <<decl, i, j, a, b, out, hasher_a, hasher_b>>

----------------------------------------------------------------------------
(* The underlying integer type: u8.                                        *)

U8_MAX == 255

Ty == 0..U8_MAX

(* Length bound of the write sequence of a hasher.                         *)
MaxWrites == 3

----------------------------------------------------------------------------
(* Declarations.                                                           *)

\* The declaration of the crate's tests.
TestIpProtocol ==
    << [name |-> "Icmp", value |-> 1],
       [name |-> "Tcp",  value |-> 6] >>

\* The declaration of the macro's documentation example.
Protocol ==
    << [name |-> "HopByHop",  value |-> 0],
       [name |-> "Icmp",      value |-> 1],
       [name |-> "Igmp",      value |-> 2],
       [name |-> "Tcp",       value |-> 6],
       [name |-> "Udp",       value |-> 17],
       [name |-> "Ipv6Route", value |-> 43],
       [name |-> "Ipv6Frag",  value |-> 44],
       [name |-> "IpSecEsp",  value |-> 50],
       [name |-> "IpSecAh",   value |-> 51],
       [name |-> "Icmpv6",    value |-> 58],
       [name |-> "Ipv6NoNxt", value |-> 59],
       [name |-> "Ipv6Opts",  value |-> 60] >>

\* A declaration the macro's pattern accepts in which two variants carry the
\* same literal: the match arms the macro emits for it compile, the later
\* arm being unreachable.
AliasedProtocol ==
    << [name |-> "Icmp",      value |-> 1],
       [name |-> "Tcp",       value |-> 6],
       [name |-> "IcmpAlias", value |-> 1] >>

Declarations == {TestIpProtocol, Protocol, AliasedProtocol}

\* The literals a declaration binds.
Literals(variants) == {variants[k].value : k \in 1..Len(variants)}

----------------------------------------------------------------------------
(* The emitted type.                                                       *)

\* The unit struct of the private module _<name>_private.
Sealed == "Sealed"

\* A declared variant, named directly.
Variant(name) == [variant |-> name]

\* The catch-all case, written as a struct literal.
Unknown(value, marker) ==
    [variant |-> "Unknown", value |-> value, _private |-> marker]

----------------------------------------------------------------------------
(* From<$ty> for $name: the match arms are tried in declaration order and  *)
(* the first pattern equal to the value is taken; the final arm binds any  *)
(* other value.                                                            *)

RECURSIVE match_ty(_, _, _)
match_ty(variants, value, k) ==
    IF k > Len(variants)
    THEN Unknown(value, Sealed)
    ELSE IF variants[k].value = value
         THEN Variant(variants[k].name)
         ELSE match_ty(variants, value, k + 1)

\* A conversion that reads the value as the position of the case, as a
\* transmute under #[repr($ty)] would.
from_ty_by_position(variants, value) ==
    IF value < Len(variants)
    THEN Variant(variants[value + 1].name)
    ELSE Unknown(value, Sealed)

\* A match whose later arms shadow the earlier ones.
RECURSIVE match_ty_last(_, _, _)
match_ty_last(variants, value, k) ==
    IF k < 1
    THEN Unknown(value, Sealed)
    ELSE IF variants[k].value = value
         THEN Variant(variants[k].name)
         ELSE match_ty_last(variants, value, k - 1)

from_ty_last(variants, value) == match_ty_last(variants, value, Len(variants))

from_ty(variants, value) == match_ty(variants, value, 1)

----------------------------------------------------------------------------
(* From<&$name> for $ty: a declared variant gives its literal, Unknown its *)
(* stored value.  From<$name> for $ty goes through the reference.          *)

\* The position of a declared variant in the declaration (names are unique).
IndexOf(variants, name) ==
    CHOOSE k \in 1..Len(variants) : variants[k].name = name

\* What `self as $ty` gives under #[repr($ty)]: the position of the case.
from_ref_discriminant(variants, value) ==
    IF value.variant = "Unknown"
    THEN Len(variants)
    ELSE IndexOf(variants, value.variant) - 1

from_ref(variants, value) ==
    IF value.variant = "Unknown"
    THEN value.value
    ELSE variants[IndexOf(variants, value.variant)].value

from_name(variants, value) == from_ref(variants, value)

----------------------------------------------------------------------------
(* Debug.                                                                  *)

Digit(d) == <<"0", "1", "2", "3", "4", "5", "6", "7", "8", "9">>[d + 1]

\* Display of an unsigned integer: its decimal digits, most significant first.
RECURSIVE u8_Display(_)
u8_Display(n) ==
    IF n < 10 THEN Digit(n) ELSE u8_Display(n \div 10) \o Digit(n % 10)

\* What #[derive(Debug)] prints.
fmt_derived(variants, self) ==
    IF self.variant = "Unknown"
    THEN "Unknown { value: " \o u8_Display(self.value) \o ", _private: Sealed }"
    ELSE self.variant

fmt(variants, self) ==
    IF self.variant = "Unknown"
    THEN "Unknown(" \o u8_Display(self.value) \o ")"
    ELSE self.variant

----------------------------------------------------------------------------
(* PartialEq, PartialOrd, Ord.                                             *)

\* What #[derive(PartialEq)] compares: the case, then the fields.
eq_derived(variants, self, other) == self = other

eq(variants, self, other) ==
    from_ref(variants, self) = from_ref(variants, other)

\* Ord for the integer type.
u8_cmp(x, y) ==
    IF x < y THEN "Less" ELSE IF x = y THEN "Equal" ELSE "Greater"

\* The position of an instance's case in the enum.
CaseIndex(variants, self) ==
    IF self.variant = "Unknown"
    THEN Len(variants) + 1
    ELSE IndexOf(variants, self.variant)

\* What #[derive(Ord)] compares: the position of the case, then the fields.
cmp_derived(variants, self, other) ==
    IF CaseIndex(variants, self) # CaseIndex(variants, other)
    THEN u8_cmp(CaseIndex(variants, self), CaseIndex(variants, other))
    ELSE IF self.variant = "Unknown"
         THEN u8_cmp(self.value, other.value)
         ELSE "Equal"

cmp(variants, self, other) ==
    u8_cmp(from_ref(variants, self), from_ref(variants, other))

Some(x) == [tag |-> "Some", val |-> x]

None == [tag |-> "None"]

\* A partial order that relates instances of the same case only.
partial_cmp_same_case(variants, self, other) ==
    IF (self.variant = "Unknown") = (other.variant = "Unknown")
    THEN Some(cmp(variants, self, other))
    ELSE None

partial_cmp(variants, self, other) == Some(cmp(variants, self, other))

\* Ordering::reverse.
reverse(ord) ==
    IF ord = "Less" THEN "Greater" ELSE IF ord = "Greater" THEN "Less" ELSE "Equal"

----------------------------------------------------------------------------
(* Hash.                                                                   *)

\* Hasher::write_u8, write_u64, write_isize, as the hasher receives them.
write(state, kind, n) == Append(state, [write |-> kind, val |-> n])

\* Hash for u8 and for u64.
u8_hash(n, state) == write(state, "u8", n)

u64_hash(n, state) == write(state, "u64", n)

\* What #[derive(Hash)] feeds: the discriminant, then the fields.
hash_derived(variants, self, state) ==
    IF self.variant = "Unknown"
    THEN u8_hash(self.value, write(state, "isize", CaseIndex(variants, self) - 1))
    ELSE write(state, "isize", CaseIndex(variants, self) - 1)

hash(variants, self, state) == u8_hash(from_ref(variants, self), state)

\* Hasher::finish: a function of what the hasher has received.
finish(state) == [digest_of |-> state]

\* The noise the hash test feeds both hashers before the instances: the first
\* value of its list, named by its position.
Noises == {1}

----------------------------------------------------------------------------
(* The calling code.                                                       *)

NoOutput == [op |-> "none"]

\* The declared variants bound to the literal x, named directly.
Named(variants, x) ==
    {Variant(variants[k].name) :
        k \in {n \in 1..Len(variants) : variants[n].value = x}}

\* An instance for x: converted from x, or a declared variant bound to x.
Obtain(variants, x) == {from_ty(variants, x)} \cup Named(variants, x)

\* No operation has been applied to the instances yet.
Fresh == out = NoOutput /\ hasher_a = <<>> /\ hasher_b = <<>>

\* The calling code picks a declaration and a pair of integers and obtains
\* an instance for each.
InitWith(pairs) ==
    /\ decl \in Declarations
    /\ \E p \in pairs : i = p[1] /\ j = p[2]
    /\ a \in Obtain(decl, i)
    /\ b \in Obtain(decl, j)
    /\ out = NoOutput
    /\ hasher_a = <<>>
    /\ hasher_b = <<>>

\* The same integer twice (as the hash test pairs them), or two different.
Partners == {p \in Ty \X Ty : p[2] \in {p[1], U8_MAX - p[1]}}

\* Every pair of integers (as the loops of the comparison test pair them, in
\* both orders).
AllPairs == Ty \X Ty

Init == InitWith(Partners)

InitPairs == InitWith(AllPairs)

\* Code of the module the macro is invoked in names the private module and
\* writes the catch-all case as a struct literal, for any value.
UnknownLiteralA ==
    /\ Fresh
    /\ a # Unknown(i, Sealed)
    /\ a' = Unknown(i, Sealed)
    /\ UNCHANGED <<decl, i, j, b, out, hasher_a, hasher_b>>

UnknownLiteralB ==
    /\ Fresh
    /\ b # Unknown(j, Sealed)
    /\ b' = Unknown(j, Sealed)
    /\ UNCHANGED <<decl, i, j, a, out, hasher_a, hasher_b>>

\* The fields of an enum variant are as visible as the enum and Sealed is
\* Copy: code that holds an Unknown binds its marker in a pattern and writes
\* the struct literal with it, without naming the private module.
RebuildUnknownB ==
    /\ Fresh
    /\ a.variant = "Unknown"
    /\ b # Unknown(j, a._private)
    /\ b' = Unknown(j, a._private)
    /\ UNCHANGED <<decl, i, j, a, out, hasher_a, hasher_b>>

\* let a: $name = i.into();
FromTy ==
    /\ out' = [op |-> "from", val |-> from_ty(decl, i)]
    /\ UNCHANGED <<decl, i, j, a, b, hasher_a, hasher_b>>

\* let a: $name = i.into(); let b: u8 = a.into();  and  u8::from(&a)
RoundTrip ==
    /\ out' = [op |-> "roundtrip",
               by_value |-> from_name(decl, from_ty(decl, i)),
               by_ref |-> from_ref(decl, from_ty(decl, i))]
    /\ UNCHANGED <<decl, i, j, a, b, hasher_a, hasher_b>>

\* format!("{a:?}")
Fmt ==
    /\ out' = [op |-> "fmt", val |-> fmt(decl, a)]
    /\ UNCHANGED <<decl, i, j, a, b, hasher_a, hasher_b>>

\* a.eq(&b) and b.eq(&a)
Eq ==
    /\ out' = [op |-> "eq",
               a_eq_b |-> eq(decl, a, b),
               b_eq_a |-> eq(decl, b, a)]
    /\ UNCHANGED <<decl, i, j, a, b, hasher_a, hasher_b>>

\* a.cmp(&b), a.partial_cmp(&b), b.cmp(&a), b.partial_cmp(&a)
Cmp ==
    /\ out' = [op |-> "cmp",
               a_cmp_b |-> cmp(decl, a, b),
               a_pcmp_b |-> partial_cmp(decl, a, b),
               b_cmp_a |-> cmp(decl, b, a),
               b_pcmp_a |-> partial_cmp(decl, b, a)]
    /\ UNCHANGED <<decl, i, j, a, b, hasher_a, hasher_b>>

\* noise.hash(&mut hasher_a); noise.hash(&mut hasher_b);
HashNoise ==
    /\ Len(hasher_a) < MaxWrites
    /\ \E noise \in Noises :
          /\ hasher_a' = u64_hash(noise, hasher_a)
          /\ hasher_b' = u64_hash(noise, hasher_b)
    /\ UNCHANGED <<decl, i, j, a, b, out>>

\* a.hash(&mut hasher_a); b.hash(&mut hasher_b);
HashBoth ==
    /\ Len(hasher_a) < MaxWrites
    /\ Len(hasher_b) < MaxWrites
    /\ hasher_a' = hash(decl, a, hasher_a)
    /\ hasher_b' = hash(decl, b, hasher_b)
    /\ UNCHANGED <<decl, i, j, a, b, out>>

\* hasher_a.finish() and hasher_b.finish()
Finish ==
    /\ out' = [op |-> "finish", ha |-> finish(hasher_a), hb |-> finish(hasher_b)]
    /\ UNCHANGED <<decl, i, j, a, b, hasher_a, hasher_b>>

Next ==
    \/ UnknownLiteralA
    \/ UnknownLiteralB
    \/ RebuildUnknownB
    \/ FromTy
    \/ RoundTrip
    \/ Fmt
    \/ Eq
    \/ Cmp
    \/ HashNoise
    \/ HashBoth
    \/ Finish

Spec == Init /\ [][Next]_vars

\* Every pair of integers, and the comparisons only.
NextPairs ==
    \/ UnknownLiteralA
    \/ UnknownLiteralB
    \/ RebuildUnknownB
    \/ Eq
    \/ Cmp

SpecPairs == InitPairs /\ [][NextPairs]_vars

----------------------------------------------------------------------------
(* Properties.                                                             *)

\* The declared positions bound to the literal x.
Bound(variants, x) == {k \in 1..Len(variants) : variants[k].value = x}

\* The least element of a non-empty set of positions.
Least(S) == CHOOSE k \in S : \A m \in S : k <= m

\* C1. Round trip on the integer side: for every value i of the underlying
\* type, declared or not, converting i to the generated type and back, by
\* value and by reference, yields exactly i.
C1_RoundTrip ==
    out.op = "roundtrip" => out.by_value = i /\ out.by_ref = i

\* A round trip has been made through a declared variant.
C1_Witness ==
    /\ out.op = "roundtrip"
    /\ decl = TestIpProtocol
    /\ i = 6
    /\ out.by_value = 6

\* C2. Equality is equality of the underlying-integer projections, never of
\* the case: a == b exactly when the projections of a and b are equal, which
\* is exactly when a and b stand for the same integer; b == a answers as
\* a == b does.
C2_EqIsProjectionEq ==
    out.op = "eq" =>
        /\ out.a_eq_b = (from_ref(decl, a) = from_ref(decl, b))
        /\ out.a_eq_b = (i = j)
        /\ out.b_eq_a = out.a_eq_b

\* A declared variant has been compared with an Unknown carrying its literal,
\* and found equal.
C2_Witness ==
    /\ out.op = "eq"
    /\ a = Variant("Icmp")
    /\ b = Unknown(1, Sealed)
    /\ out.a_eq_b
    /\ out.b_eq_a

\* The order of two integers.
NumericOrder(x, y) ==
    CASE x < y -> "Less"
      [] x = y -> "Equal"
      [] x > y -> "Greater"

\* C3. Order consistency: cmp(a, b) is the numeric comparison of the
\* projections of a and b; an instance for a smaller integer is Less than
\* an instance for a larger one, and the latter Greater than the former.
C3_OrderIsNumeric ==
    out.op = "cmp" =>
        /\ out.a_cmp_b = NumericOrder(from_ref(decl, a), from_ref(decl, b))
        /\ out.b_cmp_a = NumericOrder(from_ref(decl, b), from_ref(decl, a))
        /\ out.a_cmp_b = NumericOrder(i, j)
        /\ i < j => out.a_cmp_b = "Less" /\ out.b_cmp_a = "Greater"

\* An Unknown carrying a declared literal has been compared with a declared
\* variant of a larger literal that precedes it in the enum.
C3_Witness ==
    /\ out.op = "cmp"
    /\ a = Unknown(1, Sealed)
    /\ b = Variant("Tcp")
    /\ out.a_cmp_b = "Less"
    /\ out.b_cmp_a = "Greater"

\* C4. The partial order agrees with the total order: partial_cmp is never
\* None and is Some of cmp, in both directions; cmp(a, b) is the reverse of
\* cmp(b, a); and cmp(a, b) is Equal exactly when a == b.
C4_PartialAgreesWithTotal ==
    out.op = "cmp" =>
        /\ out.a_pcmp_b # None
        /\ out.b_pcmp_a # None
        /\ out.a_pcmp_b = Some(out.a_cmp_b)
        /\ out.b_pcmp_a = Some(out.b_cmp_a)
        /\ out.a_cmp_b = reverse(out.b_cmp_a)
        /\ out.b_cmp_a = reverse(out.a_cmp_b)
        /\ (out.a_cmp_b = "Equal") = eq(decl, a, b)

\* A declared variant and an Unknown of another value have been compared in
\* both directions.
C4_Witness ==
    /\ out.op = "cmp"
    /\ a = Variant("Tcp")
    /\ b = Unknown(200, Sealed)
    /\ out.a_pcmp_b = Some("Less")
    /\ out.b_pcmp_a = Some("Greater")

\* What a hasher receives from an instance for x: one write of x as a u8.
IsFeedOf(x, state) ==
    \A k \in 1..Len(state) :
        \/ state[k] = [write |-> "u8", val |-> x]
        \/ state[k].write = "u64" /\ state[k].val \in Noises

\* C5. Hash/equality coherence: an instance feeds a hasher its projection
\* as the integer type does, and nothing of its case or marker; so when
\* a == b, the two hashers, which started in the same state and received
\* the same noise, have received the same input and finish() alike.
C5_HashCoherence ==
    /\ IsFeedOf(i, hasher_a)
    /\ IsFeedOf(j, hasher_b)
    /\ eq(decl, a, b) =>
          /\ hasher_a = hasher_b
          /\ finish(hasher_a) = finish(hasher_b)
          /\ out.op = "finish" => out.ha = out.hb

\* A declared variant and an Unknown carrying its literal have been hashed
\* after noise, then hashed again, and the hashers finished.
C5_Witness ==
    /\ a = Variant("Tcp")
    /\ b = Unknown(6, Sealed)
    /\ Len(hasher_a) = MaxWrites
    /\ hasher_a[1].write = "u64"
    /\ hasher_a[2].write = "u8"
    /\ hasher_a[3].write = "u8"
    /\ out.op = "finish"
    /\ out.ha = finish(hasher_a)

\* C6. Construction from the integer is a total first-match lookup: the
\* result for i is the first declared variant, in declaration order, whose
\* literal is i, and is Unknown holding exactly i if and only if no literal
\* is i; no Unknown it returns carries a declared literal.
C6_FirstMatch ==
    out.op = "from" =>
        /\ Bound(decl, i) # {} =>
              out.val = [variant |-> decl[Least(Bound(decl, i))].name]
        /\ Bound(decl, i) = {} =>
              out.val = [variant |-> "Unknown", value |-> i, _private |-> Sealed]
        /\ out.val.variant = "Unknown" <=> Bound(decl, i) = {}
        /\ out.val.variant = "Unknown" => out.val.value \notin Literals(decl)

\* A literal bound by two variants has been converted.
C6_Witness ==
    /\ out.op = "from"
    /\ decl = AliasedProtocol
    /\ i = 1
    /\ out.val = Variant("Icmp")

\* The decimal numerals of the underlying type, by place value, without
\* leading zeros.
Numerals ==
    {[s |-> Digit(u), v |-> u] : u \in 0..9}
    \cup {[s |-> Digit(t) \o Digit(u), v |-> 10 * t + u] :
            t \in 1..9, u \in 0..9}
    \cup {[s |-> Digit(h) \o Digit(t) \o Digit(u), v |-> 100 * h + 10 * t + u] :
            h \in 1..2, t \in 0..9, u \in 0..9}

\* C7. Formatting: a declared variant renders as exactly its name, and an
\* Unknown holding v as "Unknown(" followed by v in decimal followed by ")";
\* under the tests' declaration the instances converted from 1, 6 and 200
\* render as "Icmp", "Tcp" and "Unknown(200)".
C7_Formatting ==
    out.op = "fmt" =>
        /\ a.variant # "Unknown" =>
              \E k \in 1..Len(decl) : a = Variant(decl[k].name) /\ out.val = decl[k].name
        /\ a.variant = "Unknown" =>
              \E n \in Numerals : n.v = a.value /\ out.val = "Unknown(" \o n.s \o ")"
        /\ (decl = TestIpProtocol /\ a = from_ty(decl, i)) =>
              /\ i = 1 => out.val = "Icmp"
              /\ i = 6 => out.val = "Tcp"
              /\ i = 200 => out.val = "Unknown(200)"

\* The instance converted from 200 has been rendered.
C7_Witness ==
    /\ out.op = "fmt"
    /\ decl = TestIpProtocol
    /\ i = 200
    /\ a = from_ty(decl, i)
    /\ out.val = "Unknown(200)"

\* C8. Sealing: every instance the calling code holds is a declared variant
\* or an Unknown whose value is no declared literal.
C8_NoForgedUnknown ==
    \A inst \in {a, b} :
        inst.variant = "Unknown" => inst.value \notin Literals(decl)

\* The position of the first variant that carries the literal of the variant
\* at position k.
Earliest(variants, k) == Least(Bound(variants, variants[k].value))

\* The instance is a declared variant whose literal an earlier variant carries.
IsAlias(variants, self) ==
    /\ self.variant # "Unknown"
    /\ \E k \in 1..Len(variants) :
          variants[k].name = self.variant /\ Earliest(variants, k) < k

\* The earlier variant of the literal of an alias.
AliasedBy(variants, self) ==
    LET k == CHOOSE n \in 1..Len(variants) : variants[n].name = self.variant
    IN  [variant |-> variants[Earliest(variants, k)].name]

\* C10. Duplicate literals are accepted.  With V1 the earlier and V2 the
\* later variant of literal k: no integer converts to V2 and k converts to
\* V1; V2 projects to k; V2 == V1, cmp is Equal and both feed a hasher the
\* same; the integer round trip holds for every integer; and V2 converted
\* to its integer and back is V1, another case, rendered with V1's name.
C10_Aliases ==
    IsAlias(decl, a) =>
        LET V1 == AliasedBy(decl, a)
            back == from_ty(decl, from_ref(decl, a))
        IN  /\ \A x \in Ty : from_ty(decl, x) # a
            /\ out.op = "from" => out.val = V1
            /\ from_ref(decl, a) = i
            /\ from_ref(decl, a) = from_ref(decl, V1)
            /\ out.op = "roundtrip" => out.by_value = i /\ out.by_ref = i
            /\ \A x \in Ty : from_ref(decl, from_ty(decl, x)) = x
            /\ back = V1
            /\ back # a
            /\ eq(decl, back, a)
            /\ fmt(decl, back) = V1.variant
            /\ fmt(decl, back) # fmt(decl, a)
            /\ b = V1 =>
                  /\ out.op = "eq" => out.a_eq_b /\ out.b_eq_a
                  /\ out.op = "cmp" => out.a_cmp_b = "Equal" /\ out.b_cmp_a = "Equal"
                  /\ hasher_a = hasher_b
                  /\ out.op = "finish" => out.ha = out.hb

\* The later and the earlier variant of a shared literal have been hashed
\* and compared.
C10_Witness ==
    /\ decl = AliasedProtocol
    /\ a = Variant("IcmpAlias")
    /\ b = Variant("Icmp")
    /\ Len(hasher_a) > 0
    /\ hasher_a[Len(hasher_a)].write = "u8"
    /\ out.op = "cmp"
    /\ out.a_cmp_b = "Equal"

============================================================================
